---- MODULE Spec2Model ----
(***************************************************************************)
(* A model of the AI-readiness website evaluator: the fetch client         *)
(* (requests.py), the lenient tree builder and query engine (bs4), the     *)
(* rule evaluators and the four entry points that run them                 *)
(* (analyze_website.py, ai_readiness_checker.py, app.py in CLI mode and    *)
(* in its "Analyze Website" handler), plus direct calls of the public      *)
(* functions the way the test-suite makes them.                            *)
(*                                                                         *)
(* Python values are represented as follows.  A str that the code          *)
(* inspects character by character (element text, attribute values that    *)
(* are stripped) is a sequence of one-character strings; any other str is  *)
(* a TLA+ string.  None, True and False, where a Python variable may hold  *)
(* either of them, are the tags PyNone, PyTrue, PyFalse; an attribute      *)
(* given without a value (<img alt>) holds NoneStr.  A raised              *)
(* exception is a record with the field exc.                               *)
(***************************************************************************)
EXTENDS Integers, Sequences, FiniteSets, TLC

VARIABLES
    entry,      \* which program runs
    pc,         \* its position
    markup,     \* the tokens of the page handed to the handlers so far
    previous,   \* the outcome of the first run once the analysis is run again
    nodes,      \* the Elements created so far; nodes[1] is _Parser.root
    current,    \* _Parser.current: an index into nodes, or NoneRef
    cdata,      \* HTMLParser's cdata_elem: the raw-text element open, or ""
    fed,        \* number of tokens handed to the handlers
    soup,       \* the object the rule evaluators are given, or NoSoup
    fetch,      \* what the network did to the page GET, or NoCall
    resp,       \* the page Response, or NoResp
    called,     \* names of the rule evaluators called, in call order
    probes,     \* the HEAD requests issued, in order
    result,     \* what the entry point returned / printed / showed
    last        \* the last direct call of a public function and its outcome

vars == <<entry, pc, markup, previous, nodes, current, cdata, fed, soup, fetch,
          resp, called, probes, result, last>>

----------------------------------------------------------------------------
(* Bounds of the model. *)

\* Tokens fed to the parser in one run.
MaxTokens == 3

----------------------------------------------------------------------------
(* Python values. *)

PyNone  == "None"
PyTrue  == "True"
PyFalse == "False"

PyBool(b) == IF b THEN PyTrue ELSE PyFalse

\* bool(x) for x a pass flag
Truthy(x) == x = PyTrue

\* The absent Element reference (None where an Element is expected).
NoneRef == 0

Raise(type, msg) == [exc |-> type, msg |-> msg]

Raised(r) == "exc" \in DOMAIN r

\* x = <something that may raise>; <the rest, which uses x>:
\* r is [val |-> x] or an exception, which ends the function.
Bind(r, Rest(_)) == IF Raised(r) THEN r ELSE Rest(r.val)

\* A str as the sequence of its characters.
Str_x      == <<"x">>
Str_empty  == <<>>
Str_schema_lower == <<"s","c","h","e","m","a",".","o","r","g">>
Str_schema_mixed == <<"S","c","h","e","m","a",".","o","r","g">>
Str_schema_upper == <<"H","T","T","P","S",":","/","/","S","C","H","E","M","A",".","O","R","G">>
Str_schema_tail  == <<"s","c","h","e","m","a",".","O","R","g">>
Str_example      == <<"e","x","a","m","p","l","e",".","o","r","g">>

UpperLetters == <<"A","B","C","D","E","F","G","H","I","J","K","L","M",
                  "N","O","P","Q","R","S","T","U","V","W","X","Y","Z">>
LowerLetters == <<"a","b","c","d","e","f","g","h","i","j","k","l","m",
                  "n","o","p","q","r","s","t","u","v","w","x","y","z">>

\* str.lower() of one character
LowerChar(c) ==
    IF \E i \in 1..Len(UpperLetters) : UpperLetters[i] = c
    THEN LowerLetters[CHOOSE i \in 1..Len(UpperLetters) : UpperLetters[i] = c]
    ELSE c

\* str.lower()
Lower(s) == [i \in 1..Len(s) |-> LowerChar(s[i])]

\* needle in hay  (substring test of str.__contains__)
Contains(hay, needle) ==
    \E k \in 0..(Len(hay) - Len(needle)) :
        \A i \in 1..Len(needle) : hay[k + i] = needle[i]

Whitespace == {" ", "\t", "\n"}

\* str.strip() is empty
StripIsEmpty(s) == \A i \in 1..Len(s) : s[i] \in Whitespace

\* "application/ld+json"
Str_ldjson == <<"a","p","p","l","i","c","a","t","i","o","n","/",
                "l","d","+","j","s","o","n">>
Str_a_png  == <<"a",".","p","n","g">>
Str_en     == <<"e","n">>
Str_captions == <<"c","a","p","t","i","o","n","s">>

\* None where a str is expected: no sequence of characters equals it.
NoneStr == <<"None">>

----------------------------------------------------------------------------
(* bs4: Element and _Parser. *)

EmptyDict == [k \in {} |-> <<>>]

\* dict(attrs or []): the last occurrence of a key wins
DictOf(pairs) ==
    [k \in {pairs[i][1] : i \in 1..Len(pairs)} |->
        pairs[CHOOSE i \in 1..Len(pairs) :
                  /\ pairs[i][1] = k
                  /\ \A j \in (i+1)..Len(pairs) : pairs[j][1] # k][2]]

\* Element.__init__
Element(name, attrs, parent) ==
    [name |-> name, attrs |-> DictOf(attrs), children |-> <<>>,
     parent |-> parent, text |-> <<>>]

\* Element.append, on the store of Elements: ns[p].append(ns[c])
ElementAppend(ns, p, c) ==
    [ns EXCEPT ![p].children = Append(@, c), ![c].parent = p]

DocumentName == "[document]"

\* _Parser.__init__: root = Element('[document]'), current = root
ParserRoot == 1

\* the while loop of handle_endtag
RECURSIVE WalkUp(_, _, _)
WalkUp(ns, cur, tag) ==
    IF cur # NoneRef /\ ns[cur].name # tag
    THEN WalkUp(ns, ns[cur].parent, tag)
    ELSE cur

\* An end tag that closes every open element
EndTagCurrent_root(ns, cur, tag) == ParserRoot

\* _Parser.handle_endtag: the new value of current
EndTagCurrent(ns, cur, tag) ==
    LET c == WalkUp(ns, cur, tag) IN
    IF c # NoneRef
    THEN (IF ns[c].parent # NoneRef THEN ns[c].parent ELSE ParserRoot)
    ELSE c

\* Element._iter: the subtree of el in pre-order
RECURSIVE Iter(_, _)
RECURSIVE IterAll(_, _)
Iter(ns, el) == <<el>> \o IterAll(ns, ns[el].children)
IterAll(ns, els) ==
    IF els = <<>> THEN <<>>
    ELSE Iter(ns, Head(els)) \o IterAll(ns, Tail(els))

----------------------------------------------------------------------------
(* The token stream html.parser hands to the handlers. *)

StartTag(tag, attrs) == [type |-> "start", tag |-> tag, attrs |-> attrs]
EndTag(tag)          == [type |-> "end", tag |-> tag]
Text(data)           == [type |-> "data", data |-> data]

\* The pages of the model are written over one of four vocabularies:
\* content pages, pages of images, media pages and pages with an html tag.
PageStartTags ==
    { StartTag("p", <<>>),
      StartTag("img", <<>>),
      StartTag("img", << <<"alt", Str_empty>> >>),
      StartTag("img", << <<"alt", Str_x>>, <<"src", Str_a_png>> >>),
      StartTag("script", << <<"type", Str_ldjson>> >>) }

PageEndTags == { EndTag("div"), EndTag("p"), EndTag("script") }

\* <img alt> gives the attribute without a value: ('alt', None)
QueryStartTags ==
    { StartTag("p", <<>>),
      StartTag("img", << <<"alt", NoneStr>> >>),
      StartTag("img", << <<"alt", Str_x>>, <<"src", Str_a_png>> >>) }

QueryEndTags == { EndTag("p") }

MediaStartTags ==
    { StartTag("video", <<>>),
      StartTag("video", << <<"title", Str_x>> >>),
      StartTag("video", << <<"title", Str_empty>> >>),
      StartTag("audio", <<>>),
      StartTag("audio", << <<"aria-label", Str_x>> >>),
      StartTag("track", << <<"kind", Str_captions>> >>) }

MediaEndTags == { EndTag("video") }

LangStartTags ==
    { StartTag("html", <<>>),
      StartTag("html", << <<"lang", Str_en>> >>),
      StartTag("p", <<>>) }

StartTags == PageStartTags \cup QueryStartTags \cup MediaStartTags \cup LangStartTags

EndTags == PageEndTags \cup QueryEndTags \cup MediaEndTags

Texts == { Text(Str_x), Text(Str_schema_mixed), Text(Str_schema_upper) }

Vocabularies ==
    { PageStartTags \cup PageEndTags \cup Texts,
      QueryStartTags \cup QueryEndTags,
      MediaStartTags \cup MediaEndTags,
      LangStartTags }

\* HTMLParser.CDATA_CONTENT_ELEMENTS
CDataElements == {"script", "style"}

----------------------------------------------------------------------------
(* bs4: the query engine, Element.find and Element.find_all. *)

\* The name argument: None, one name, or a list of names.
NoName        == [kind |-> "none"]
Name(n)       == [kind |-> "str", v |-> n]
Names(list)   == [kind |-> "list", v |-> list]

\* The attrs argument: None, or a dict from key to an expected str or to True.
NoAttrs       == [kind |-> "none"]
Attrs(d)      == [kind |-> "dict", d |-> d]
IsTrue        == [true |-> TRUE, v |-> <<>>]
Equals(v)     == [true |-> FALSE, v |-> v]

\* Keyword arguments of a call, by keyword.
NoKw == EmptyDict

\* name is None or el.name == name or (isinstance(name, (list, tuple)) and el.name in name)
NameMatches(elname, name) ==
    \/ name.kind = "none"
    \/ name.kind = "str" /\ elname = name.v
    \/ name.kind = "list" /\ \E i \in 1..Len(name.v) : name.v[i] = elname

\* attrs is None or all(el.attrs.get(k) == v or (v is True and k in el.attrs) ...)
AttrsMatch(elattrs, attrs) ==
    \/ attrs.kind = "none"
    \/ \A k \in DOMAIN attrs.d :
          \/ ~attrs.d[k].true /\ k \in DOMAIN elattrs /\ elattrs[k] = attrs.d[k].v
          \/ attrs.d[k].true /\ k \in DOMAIN elattrs

\* The elements find and find_all test, in the order they test them.
Candidates(ns, self) ==
    LET NotSelf(el) == el # self IN SelectSeq(Iter(ns, self), NotSelf)

Matching(ns, self, name, attrs) ==
    LET Hit(el) == NameMatches(ns[el].name, name) /\ AttrsMatch(ns[el].attrs, attrs)
    IN  SelectSeq(Candidates(ns, self), Hit)

\* Binding a call to def f(self, name=None, attrs=None): any other keyword
\* is a TypeError.
UnexpectedKeyword(fn) ==
    Raise("TypeError", fn \o "() got an unexpected keyword argument")

\* Element.find_all: the list of matching elements, or what it raises
find_all(ns, self, name, attrs, kw) ==
    IF DOMAIN kw # {} THEN UnexpectedKeyword("find_all")
    ELSE [val |-> Matching(ns, self, name, attrs)]

\* The loop of Element.find over the elements els: it returns at the first
\* element that passes both tests, and None after the last
RECURSIVE FirstMatch(_, _, _, _)
FirstMatch(ns, els, name, attrs) ==
    IF els = <<>> THEN NoneRef
    ELSE IF NameMatches(ns[Head(els)].name, name) /\ AttrsMatch(ns[Head(els)].attrs, attrs)
    THEN Head(els)
    ELSE FirstMatch(ns, Tail(els), name, attrs)

\* find without `if el is self: continue`
find_with_self(ns, self, name, attrs, kw) ==
    IF DOMAIN kw # {} THEN UnexpectedKeyword("find")
    ELSE [val |-> FirstMatch(ns, Iter(ns, self), name, attrs)]

\* Element.find: the first matching element or None, or what it raises
find(ns, self, name, attrs, kw) ==
    IF DOMAIN kw # {} THEN UnexpectedKeyword("find")
    ELSE [val |-> FirstMatch(ns, Candidates(ns, self), name, attrs)]

----------------------------------------------------------------------------
(* The objects handed to the rule evaluators as soup. *)

NoSoup == [kind |-> "none"]

\* A BeautifulSoup built by bs4; root is its own '[document]' Element.
Soup(root) == [kind |-> "BeautifulSoup", root |-> root]

\* tests/test_schema_markup.py: DummySoup(scripts, micro) of DummyTags
DummySoup(scripts, micro) == [kind |-> "DummySoup", scripts |-> scripts, micro |-> micro]
DummyTag(text, attrs)     == [text |-> text, attrs |-> attrs]

\* An Element as the evaluators see it.
Tag(ns, el) == [el |-> el, name |-> ns[el].name, attrs |-> ns[el].attrs,
                text |-> ns[el].text]

Tags(ns, els) == [i \in 1..Len(els) |-> Tag(ns, els[i])]

\* DummySoup.find_all(name=None, type=None, attrs=None)
DummyFindAll(sp, name, attrs, kw) ==
    IF ~(DOMAIN kw \subseteq {"type"}) THEN UnexpectedKeyword("find_all")
    ELSE IF /\ name.kind = "str" /\ name.v = "script"
            /\ "type" \in DOMAIN kw /\ kw["type"] = Equals(Str_ldjson)
         THEN [val |-> sp.scripts]
    ELSE IF attrs.kind = "dict" /\ attrs.d = [k \in {"itemscope"} |-> IsTrue]
         THEN [val |-> sp.micro]
    ELSE [val |-> <<>>]

\* soup.find_all(...): the list of tags, or what the call raises
SoupFindAll(ns, sp, name, attrs, kw) ==
    IF sp.kind = "DummySoup" THEN DummyFindAll(sp, name, attrs, kw)
    ELSE Bind(find_all(ns, sp.root, name, attrs, kw),
              LAMBDA els : [val |-> Tags(ns, els)])

NoTag == [found |-> FALSE]

\* soup.find(...): the tag (found) or None (not found), or what the call raises
SoupFind(ns, sp, name, attrs, kw) ==
    IF sp.kind = "DummySoup"
    THEN Raise("AttributeError", "'DummySoup' object has no attribute 'find'")
    ELSE Bind(find(ns, sp.root, name, attrs, kw),
              LAMBDA el : [val |-> IF el = NoneRef THEN NoTag
                                   ELSE [found |-> TRUE, tag |-> Tag(ns, el)]])

\* tag.get(key): the value, or NoneStr for None
TagGet(tag, key) == IF key \in DOMAIN tag.attrs THEN tag.attrs[key] ELSE NoneStr

\* tag.has_attr(key)
has_attr(tag, key) == key \in DOMAIN tag.attrs

\* bool(s) of a str or None
TruthyStr(s) == s # NoneStr /\ s # <<>>

\* any(Hit(x) for x in seq) where evaluating the test on x raises when Err(x):
\* the generator stops at the first hit, so only an earlier x can raise.
AnyOrRaise(seq, Hit(_), Err(_), exc) ==
    LET hits == {i \in 1..Len(seq) : ~Err(seq[i]) /\ Hit(seq[i])}
        errs == {i \in 1..Len(seq) : Err(seq[i])}
    IN  IF \E i \in hits : \A j \in errs : j > i THEN [val |-> TRUE]
        ELSE IF errs # {} THEN exc
        ELSE [val |-> FALSE]

----------------------------------------------------------------------------
(* The rule evaluators.  Each yields [Pass, Details] or what it raises.    *)
(* check_semantic_html, check_headings_structure, check_lists_and_tables,  *)
(* check_language_attribute and check_transcripts_captions read the same   *)
(* in all four modules; check_schema_markup and check_alt_text differ.     *)

Checked(pass, details) == [Pass |-> pass, Details |-> details]

Kw1(k, v) == [x \in {k} |-> v]
Kw2(k1, v1, k2, v2) == [x \in {k1, k2} |-> IF x = k1 THEN v1 ELSE v2]

SemanticTags == <<"header", "nav", "main", "article", "section", "footer">>

\* any(soup.find(tag) for tag in tags)
RECURSIVE AnyFound(_, _, _)
AnyFound(ns, sp, tags) ==
    IF tags = <<>> THEN [val |-> FALSE]
    ELSE Bind(SoupFind(ns, sp, Name(Head(tags)), NoAttrs, NoKw),
              LAMBDA t : IF t.found THEN [val |-> TRUE]
                         ELSE AnyFound(ns, sp, Tail(tags)))

check_semantic_html(ns, sp) ==
    Bind(AnyFound(ns, sp, SemanticTags),
         LAMBDA found :
            Checked(PyBool(found),
                    IF found THEN "Semantic HTML tags found."
                    ELSE "Add semantic HTML5 tags for structure."))

LdJsonKw == Kw1("type", Equals(Str_ldjson))

TextIsNone(tag) == tag.text = NoneStr

\* return found, "Schema.org markup present." if found else "Add ..."
SchemaPresent(found) ==
    Checked(PyBool(found),
            IF found THEN "Schema.org markup present."
            ELSE "Add Schema.org structured data.")

\* "schema.org" in script.text.lower(), for the scripts with a text
ArcSchemaHit(t) == TruthyStr(t.text) /\ Contains(Lower(t.text), Str_schema_lower)

\* ai_readiness_checker.check_schema_markup
arc_check_schema_markup(ns, sp) ==
    Bind(SoupFindAll(ns, sp, Name("script"), NoAttrs, LdJsonKw),
         LAMBDA schema :
            SchemaPresent(\E i \in 1..Len(schema) : ArcSchemaHit(schema[i])))

\* "schema.org" in script.text.lower()
AwSchemaHit(t) == Contains(Lower(t.text), Str_schema_lower)

\* analyze_website.check_schema_markup
aw_check_schema_markup(ns, sp) ==
    Bind(SoupFindAll(ns, sp, Name("script"), NoAttrs, LdJsonKw),
         LAMBDA schema :
            Bind(AnyOrRaise(schema, AwSchemaHit, TextIsNone,
                     Raise("AttributeError", "'NoneType' object has no attribute 'lower'")),
                 LAMBDA found : SchemaPresent(found)))

\* "schema.org" in script.text
AppSchemaHit(t) == Contains(t.text, Str_schema_lower)

\* tag.get('itemtype') and 'schema.org' in tag.get('itemtype')
MicrodataHit(tag) ==
    TruthyStr(TagGet(tag, "itemtype")) /\ Contains(TagGet(tag, "itemtype"), Str_schema_lower)

\* "; ".join(details)
SchemaDetails(json_ld, microdata) ==
    IF json_ld /\ microdata THEN "JSON-LD found; Microdata markup found"
    ELSE IF json_ld THEN "JSON-LD found"
    ELSE "Microdata markup found"

\* if found: ... return True, "; ".join(details); else: return False, "Add ..."
SchemaFound(json_ld, microdata) ==
    IF json_ld \/ microdata
    THEN Checked(PyTrue, SchemaDetails(json_ld, microdata))
    ELSE Checked(PyFalse, "Add JSON-LD or Microdata schema.org structured data.")

\* app.check_schema_markup
app_check_schema_markup(ns, sp) ==
    Bind(SoupFindAll(ns, sp, Name("script"), NoAttrs, LdJsonKw),
         LAMBDA script_ld :
            Bind(AnyOrRaise(script_ld, AppSchemaHit, TextIsNone,
                     Raise("TypeError", "argument of type 'NoneType' is not iterable")),
                 LAMBDA found_json_ld :
                    Bind(SoupFindAll(ns, sp, NoName, Attrs(Kw1("itemscope", IsTrue)), NoKw),
                         LAMBDA tags_microdata :
                            SchemaFound(found_json_ld,
                                        \E i \in 1..Len(tags_microdata) :
                                            MicrodataHit(tags_microdata[i])))))

\* ai_readiness.evaluations.check_schema_markup
ev_check_schema_markup(ns, sp) ==
    Bind(SoupFindAll(ns, sp, Name("script"), NoAttrs, LdJsonKw),
         LAMBDA script_ld :
            Bind(AnyOrRaise(script_ld, AppSchemaHit, TextIsNone,
                     Raise("TypeError", "argument of type 'NoneType' is not iterable")),
                 LAMBDA found_json_ld :
                    Bind(SoupFindAll(ns, sp, NoName, Attrs(Kw1("itemscope", IsTrue)), NoKw),
                         LAMBDA tags_microdata :
                            SchemaFound(found_json_ld,
                                        \E i \in 1..Len(tags_microdata) :
                                            MicrodataHit(tags_microdata[i])))))

HeadingTags == <<"h1", "h2", "h3", "h4", "h5", "h6">>

check_headings_structure(ns, sp) ==
    Bind(SoupFindAll(ns, sp, Names(HeadingTags), NoAttrs, NoKw),
         LAMBDA headings :
            Checked(PyBool(headings # <<>>),
                    IF headings # <<>>
                    THEN ToString(Len(headings)) \o " heading tags found."
                    ELSE "Add descriptive headings (h1-h6)."))

\* img['alt'].strip() raises on an alt given without a value
AltIsNone(img) == has_attr(img, "alt") /\ img.attrs["alt"] = NoneStr

\* not img.has_attr('alt') or not img['alt'].strip()
MissingAlt(img) == ~has_attr(img, "alt") \/ StripIsEmpty(img.attrs["alt"])

\* [img for img in images if not img.has_attr('alt') or not img['alt'].strip()]
ImagesMissingAlt(images) ==
    IF \E i \in 1..Len(images) : AltIsNone(images[i])
    THEN Raise("AttributeError", "'NoneType' object has no attribute 'strip'")
    ELSE [val |-> SelectSeq(images, MissingAlt)]

\* ai_readiness_checker.check_alt_text
arc_check_alt_text(ns, sp) ==
    Bind(SoupFindAll(ns, sp, Name("img"), NoAttrs, NoKw),
         LAMBDA images :
            IF images = <<>> THEN Checked(PyTrue, "No images found.")
            ELSE Bind(ImagesMissingAlt(images),
                      LAMBDA images_missing_alt :
                         Checked(PyBool(Len(images_missing_alt) = 0),
                                 IF Len(images_missing_alt) = 0
                                 THEN "All images have alt text."
                                 ELSE ToString(Len(images_missing_alt)) \o " of "
                                      \o ToString(Len(images))
                                      \o " images missing alt text.")))

\* analyze_website.check_alt_text
aw_check_alt_text(ns, sp) ==
    Bind(SoupFindAll(ns, sp, Name("img"), NoAttrs, NoKw),
         LAMBDA images :
            IF images = <<>> THEN Checked(PyTrue, "No images found.")
            ELSE Bind(ImagesMissingAlt(images),
                      LAMBDA images_missing_alt :
                         Checked(PyBool(Len(images_missing_alt) = 0),
                                 IF Len(images_missing_alt) = 0
                                 THEN "All images have alt text."
                                 ELSE ToString(Len(images_missing_alt))
                                      \o " images missing alt text.")))

\* app.check_alt_text
app_check_alt_text(ns, sp) ==
    Bind(SoupFindAll(ns, sp, Name("img"), NoAttrs, NoKw),
         LAMBDA images :
            Bind(ImagesMissingAlt(images),
                 LAMBDA images_missing_alt :
                    Checked(PyBool(Len(images_missing_alt) = 0 /\ Len(images) > 0),
                            IF Len(images_missing_alt) = 0 /\ Len(images) > 0
                            THEN "All images have alt text."
                            ELSE ToString(Len(images_missing_alt))
                                 \o " images missing alt text.")))

\* ai_readiness.evaluations.check_alt_text
ev_check_alt_text(ns, sp) ==
    Bind(SoupFindAll(ns, sp, Name("img"), NoAttrs, NoKw),
         LAMBDA images :
            Bind(ImagesMissingAlt(images),
                 LAMBDA images_missing_alt :
                    Checked(PyBool(Len(images_missing_alt) = 0 /\ Len(images) > 0),
                            IF Len(images_missing_alt) = 0 /\ Len(images) > 0
                            THEN "All images have alt text."
                            ELSE ToString(Len(images_missing_alt))
                                 \o " images missing alt text.")))

check_lists_and_tables(ns, sp) ==
    Bind(SoupFindAll(ns, sp, Names(<<"ul", "ol">>), NoAttrs, NoKw),
         LAMBDA lists :
            Bind(SoupFindAll(ns, sp, Name("table"), NoAttrs, NoKw),
                 LAMBDA tables :
                    Checked(PyBool(lists # <<>> \/ tables # <<>>),
                            IF lists # <<>> \/ tables # <<>>
                            THEN ToString(Len(lists)) \o " lists, "
                                 \o ToString(Len(tables)) \o " tables found."
                            ELSE "Consider using lists and tables for structured content.")))

\* return found, "lang attribute present on html tag." if found else "Add ..."
LanguageResult(found) ==
    Checked(found,
            IF Truthy(found) THEN "lang attribute present on html tag."
            ELSE "Add lang attribute for language declaration.")

\* found = html_tag and html_tag.has_attr('lang'): None when there is no html tag
check_language_attribute(ns, sp) ==
    Bind(SoupFind(ns, sp, Name("html"), NoAttrs, NoKw),
         LAMBDA html_tag :
            LanguageResult(IF ~html_tag.found THEN PyNone
                           ELSE PyBool(has_attr(html_tag.tag, "lang"))))

\* A captions track anywhere in the document
HasCaptionsTrack_anywhere(ns, v) ==
    \E el \in 1..Len(ns) :
        /\ ns[el].name = "track"
        /\ "kind" \in DOMAIN ns[el].attrs
        /\ ns[el].attrs["kind"] = Str_captions

\* v.find('track', attrs={'kind': 'captions'}) is an Element
HasCaptionsTrack(ns, v) ==
    find(ns, v.el, Name("track"), Attrs(Kw1("kind", Equals(Str_captions))), NoKw).val # NoneRef

\* t.get('aria-label') or t.get('title')
Labelled(t) == TruthyStr(TagGet(t, "aria-label")) \/ TruthyStr(TagGet(t, "title"))

TranscriptsResult(found) ==
    Checked(PyBool(found),
            IF found THEN "Multimedia elements have ARIA labels/titles/captions."
            ELSE "Provide captions/transcripts for videos/audio.")

check_transcripts_captions(ns, sp) ==
    Bind(SoupFindAll(ns, sp, Name("video"), NoAttrs, NoKw),
         LAMBDA videos :
            Bind(SoupFindAll(ns, sp, Name("audio"), NoAttrs, NoKw),
                 LAMBDA audios :
                    TranscriptsResult(
                        IF videos # <<>> \/ audios # <<>>
                        THEN /\ \A i \in 1..Len(videos) :
                                   Labelled(videos[i]) \/ HasCaptionsTrack(ns, videos[i])
                             /\ \A i \in 1..Len(audios) : Labelled(audios[i])
                        ELSE TRUE)))

----------------------------------------------------------------------------
(* requests: what the network does to one request, and get / head. *)

\* What urllib's urlopen does with one request: it returns the final
\* response, raises HTTPError for a 4xx/5xx answer, or raises for want of
\* any answer (URLError, timeout).
Answered(status, headers, length) ==
    [kind |-> "response", status |-> status, headers |-> headers, length |-> length]
HttpError(status, headers) ==
    [kind |-> "http_error", status |-> status, headers |-> headers]
NoAnswer(why) == [kind |-> "no_answer", why |-> why]

\* Response.__init__
Response(url, length, headers, status) ==
    [url |-> url, content |-> length, headers |-> headers, status_code |-> status]

NoResp == [kind |-> "none"]

\* requests._request: urlopen's result as a Response, or what it raises
request(method, url, net) ==
    IF net.kind = "response"
    THEN Response(url, IF method = "HEAD" THEN 0 ELSE net.length, net.headers, net.status)
    ELSE IF net.kind = "http_error"
    THEN [exc |-> "HTTPError", msg |-> "HTTP Error " \o ToString(net.status),
          code |-> net.status, headers |-> net.headers]
    ELSE Raise(net.why, net.why)

\* get with the recovery of head: an HTTP error answer returned as a Response
get_recovering(url, net) ==
    IF net.kind = "http_error" THEN Response(url, 0, net.headers, net.status)
    ELSE request("GET", url, net)

\* requests.get
get(url, net) == request("GET", url, net)

\* requests.head: except urllib.error.HTTPError as e: return Response(...)
OrHttpError(url, r) ==
    IF Raised(r) /\ r.exc = "HTTPError"
    THEN Response(url, 0, r.headers, r.code)
    ELSE r

\* head without its except clause
head_unguarded(url, net) == request("HEAD", url, net)

head(url, net) == OrHttpError(url, request("HEAD", url, net))

Digits == <<"0","1","2","3","4","5","6","7","8","9">>

IsDigit(c) == \E i \in 1..Len(Digits) : Digits[i] = c

DigitValue(c) == (CHOOSE i \in 1..Len(Digits) : Digits[i] = c) - 1

RECURSIVE DecimalValue(_)
DecimalValue(s) ==
    IF s = <<>> THEN 0
    ELSE 10 * DecimalValue(SubSeq(s, 1, Len(s) - 1)) + DigitValue(s[Len(s)])

\* int(s) of a header value
int(s) ==
    IF s # <<>> /\ \A i \in 1..Len(s) : IsDigit(s[i])
    THEN [val |-> DecimalValue(s)]
    ELSE Raise("ValueError", "invalid literal for int() with base 10")

\* the str of a sequence of characters
RECURSIVE Join(_)
Join(s) == IF s = <<>> THEN "" ELSE Head(s) \o Join(Tail(s))

Str_10  == <<"1","0">>
Str_250 == <<"2","5","0">>
Str_viewport == <<"v","i","e","w","p","o","r","t">>
Str_canonical == <<"c","a","n","o","n","i","c","a","l">>
Str_twitter == <<"t","w","i","t","t","e","r",":","c","a","r","d">>
Str_alternate == <<"a","l","t","e","r","n","a","t","e">>
Str_stylesheet == <<"s","t","y","l","e","s","h","e","e","t">>
Str_lazy == <<"l","a","z","y">>

----------------------------------------------------------------------------
(* The evaluators that only app.py and ai_readiness.evaluations define.    *)

check_viewport_meta(ns, sp) ==
    Bind(SoupFind(ns, sp, Name("meta"), Attrs(Kw1("name", Equals(Str_viewport))), NoKw),
         LAMBDA tag :
            Checked(PyBool(tag.found),
                    IF tag.found THEN "Viewport meta tag present."
                    ELSE "Add <meta name=\"viewport\" content=\"width=device-width, initial-scale=1\"> for mobile responsiveness."))

\* found = bool(tag and tag.get('href'))
CanonicalResult(tag) ==
    IF tag.found /\ TruthyStr(TagGet(tag.tag, "href"))
    THEN Checked(PyTrue, "Canonical link found: " \o Join(tag.tag.attrs["href"]))
    ELSE Checked(PyFalse, "Add <link rel=\"canonical\" href=\"...\"> to avoid duplicate content issues.")

\* tag = soup.find('link', rel='canonical') or soup.find('link', attrs={'rel': 'canonical'})
check_canonical_link(ns, sp) ==
    Bind(SoupFind(ns, sp, Name("link"), NoAttrs, Kw1("rel", Equals(Str_canonical))),
         LAMBDA first :
            IF first.found THEN CanonicalResult(first)
            ELSE Bind(SoupFind(ns, sp, Name("link"),
                               Attrs(Kw1("rel", Equals(Str_canonical))), NoKw),
                      LAMBDA second : CanonicalResult(second)))

\* property=lambda x: x and x.startswith('og:')
StartsWithOg == [true |-> FALSE, v |-> <<"lambda">>]

check_social_meta(ns, sp) ==
    Bind(SoupFindAll(ns, sp, Name("meta"), NoAttrs, Kw1("property", StartsWithOg)),
         LAMBDA og_tags :
            Bind(SoupFind(ns, sp, Name("meta"),
                          Attrs(Kw1("name", Equals(Str_twitter))), NoKw),
                 LAMBDA twitter_tag :
                    Checked(PyBool(og_tags # <<>> /\ twitter_tag.found),
                            (IF og_tags # <<>>
                             THEN ToString(Len(og_tags)) \o " OpenGraph tags"
                             ELSE "Missing OpenGraph tags")
                            \o "; " \o
                            (IF twitter_tag.found THEN "Twitter Card tag present"
                             ELSE "Missing Twitter Card tag"))))

check_hreflang_tags(ns, sp) ==
    Bind(SoupFindAll(ns, sp, Name("link"), NoAttrs,
                     Kw2("rel", Equals(Str_alternate), "hreflang", IsTrue)),
         LAMBDA tags :
            Checked(PyBool(tags # <<>>),
                    IF tags # <<>> THEN ToString(Len(tags)) \o " hreflang tags found."
                    ELSE "Add <link rel=\"alternate\" hreflang=\"x\" href=\"...\"> tags for multilingual support."))

\* [tag[key] for tag in tags]
Refs(tags, key) == [i \in 1..Len(tags) |-> tags[i].attrs[key]]

\* The five statements that collect the page's resource references.
Resources(ns, sp) ==
    Bind(SoupFindAll(ns, sp, Name("script"), NoAttrs, Kw1("src", IsTrue)),
     LAMBDA scripts :
    Bind(SoupFindAll(ns, sp, Name("link"), NoAttrs,
                     Kw2("rel", Equals(Str_stylesheet), "href", IsTrue)),
     LAMBDA links :
    Bind(SoupFindAll(ns, sp, Name("img"), NoAttrs, Kw1("src", IsTrue)),
     LAMBDA imgs :
    Bind(SoupFindAll(ns, sp, Name("video"), NoAttrs, Kw1("src", IsTrue)),
     LAMBDA videos :
    Bind(SoupFindAll(ns, sp, Name("audio"), NoAttrs, Kw1("src", IsTrue)),
     LAMBDA audios :
        [val |-> Refs(scripts, "src") \o Refs(links, "href") \o Refs(imgs, "src")
                 \o Refs(videos, "src") \o Refs(audios, "src")])))))

MaxResources == 50

check_resource_count(ns, sp) ==
    Bind(Resources(ns, sp),
         LAMBDA resources :
            Checked(PyBool(Len(resources) <= MaxResources),
                    ToString(Len(resources)) \o " external resources referenced."))

NotLazy(img) == TagGet(img, "loading") # Str_lazy

\* return len(missing) == 0, f"{len(missing)}/{len(images)} images lack ..."
LazyResult(missing, images) ==
    Checked(PyBool(missing = 0),
            ToString(missing) \o "/" \o ToString(images) \o " images lack loading=\"lazy\".")

check_lazy_loading(ns, sp) ==
    Bind(SoupFindAll(ns, sp, Name("img"), NoAttrs, Kw1("src", IsTrue)),
         LAMBDA images :
            IF images = <<>> THEN Checked(PyTrue, "No images to lazy-load.")
            ELSE LazyResult(Len(SelectSeq(images, NotLazy)), Len(images)))

\* 'Cache-Control' in headers, 'ETag' in headers: headers is a plain dict
check_caching_headers(rsp) ==
    LET headers   == rsp.headers
        has_cache == "Cache-Control" \in DOMAIN headers
        has_etag  == "ETag" \in DOMAIN headers
    IN  Checked(PyBool(has_cache \/ has_etag),
                (IF has_cache THEN "Cache-Control: " \o Join(headers["Cache-Control"])
                 ELSE "Missing Cache-Control header")
                \o "; " \o
                (IF has_etag THEN "ETag: " \o Join(headers["ETag"])
                 ELSE "Missing ETag header"))

\* urllib.parse.urljoin(base_url, url), for the relative references of the model
urljoin(base_url, url) == base_url \o Join(url)

\* size = int(...) where int may raise: except: continue
SizeOrSkip(size) == IF Raised(size) THEN 0 ELSE size.val

\* size = int(head.headers.get('Content-Length', 0)); a raising head is skipped
SizeOf(h) ==
    IF Raised(h) THEN 0
    ELSE IF "Content-Length" \notin DOMAIN h.headers THEN 0
    ELSE SizeOrSkip(int(h.headers["Content-Length"]))

\* One pass of the loop body: the bytes a resource adds to total_size.
ProbeSize(abs_url, net) == SizeOf(head(abs_url, net))

RECURSIVE SumSizes(_, _, _)
SumSizes(base_url, resources, net) ==
    IF resources = <<>> THEN 0
    ELSE ProbeSize(urljoin(base_url, Head(resources)), Head(net))
         + SumSizes(base_url, Tail(resources), Tail(net))

\* 2 * 1024 * 1024
WeightLimit == 2097152

\* f"{total_size/1024:.1f} KB"
Human(total_size) ==
    LET q == (total_size * 10) \div 1024
        r == (total_size * 10) % 1024
        tenths == IF r > 512 \/ (r = 512 /\ q % 2 = 1) THEN q + 1 ELSE q
    IN  ToString(tenths \div 10) \o "." \o ToString(tenths % 10) \o " KB"

\* return total_size <= limit, f"Total page weight: {human} (including ...)";
\* besides [Pass, Details] the result lists the probes issued.
WeightResult(total_size, issued) ==
    [Pass |-> PyBool(total_size <= WeightLimit),
     Details |-> "Total page weight: " \o Human(total_size)
                 \o " (including HTML & resources)",
     probes |-> issued]

\* net[i] is what the network does to the HEAD probe of the i-th resource.
check_total_weight(rsp, ns, sp, base_url, net) ==
    Bind(Resources(ns, sp),
         LAMBDA resources :
            WeightResult(rsp.content + SumSizes(base_url, resources, net),
                         [i \in 1..Len(resources) |-> urljoin(base_url, resources[i])]))

----------------------------------------------------------------------------
(* The rule registries of the entry points and the report they build.      *)

AW   == "analyze_website"
ARC  == "ai_readiness_checker"
APP  == "app"
EV   == "ai_readiness.evaluations"

\* The checks lists of analyze_website.py and ai_readiness_checker.py.
Registry7 ==
    <<"Semantic HTML", "Schema.org Markup", "Headings Structure",
      "Alt Text for Images", "Lists/Tables", "Language Attribute",
      "Transcripts/Captions">>

\* The checks lists of app.py.
Registry15 ==
    Registry7 \o
    <<"Viewport Meta", "Canonical Link", "Social Meta Tags", "Hreflang Tags",
      "Resource Count", "Lazy Loading", "Caching Headers", "Page Weight">>

\* The evaluator module mod binds to the rule, applied.
RunRule(mod, rule, ns, sp, rsp, base_url, net) ==
    CASE rule = "Semantic HTML"        -> check_semantic_html(ns, sp)
      [] rule = "Schema.org Markup"    ->
            (CASE mod = AW  -> aw_check_schema_markup(ns, sp)
               [] mod = ARC -> arc_check_schema_markup(ns, sp)
               [] mod = APP -> app_check_schema_markup(ns, sp)
               [] mod = EV  -> ev_check_schema_markup(ns, sp))
      [] rule = "Headings Structure"   -> check_headings_structure(ns, sp)
      [] rule = "Alt Text for Images"  ->
            (CASE mod = AW  -> aw_check_alt_text(ns, sp)
               [] mod = ARC -> arc_check_alt_text(ns, sp)
               [] mod = APP -> app_check_alt_text(ns, sp)
               [] mod = EV  -> ev_check_alt_text(ns, sp))
      [] rule = "Lists/Tables"         -> check_lists_and_tables(ns, sp)
      [] rule = "Language Attribute"   -> check_language_attribute(ns, sp)
      [] rule = "Transcripts/Captions" -> check_transcripts_captions(ns, sp)
      [] rule = "Viewport Meta"        -> check_viewport_meta(ns, sp)
      [] rule = "Canonical Link"       -> check_canonical_link(ns, sp)
      [] rule = "Social Meta Tags"     -> check_social_meta(ns, sp)
      [] rule = "Hreflang Tags"        -> check_hreflang_tags(ns, sp)
      [] rule = "Resource Count"       -> check_resource_count(ns, sp)
      [] rule = "Lazy Loading"         -> check_lazy_loading(ns, sp)
      [] rule = "Caching Headers"      -> check_caching_headers(rsp)
      [] rule = "Page Weight"          -> check_total_weight(rsp, ns, sp, base_url, net)

\* app.py in CLI mode does not call check_total_weight: its entry is a literal.
SkippedWeight == Checked(PyTrue, "Skipped page weight calculation in CLI mode.")

IsLiteral(en, rule) == en = "app_cli" /\ rule = "Page Weight"

\* The first raising entry, or the last entry when none raises
StopsAt(n, bad) == IF bad = {} THEN n ELSE CHOOSE i \in bad : \A j \in bad : i <= j

\* The rules among the first stop entries whose evaluator was called
CalledUpTo(en, registry, stop) ==
    LET IsCall(i) == ~IsLiteral(en, registry[i])
        idx == SelectSeq([i \in 1..stop |-> i], IsCall)
    IN  [k \in 1..Len(idx) |-> registry[idx[k]]]

\* The probes the Page Weight evaluator issued, if it was reached
Issued(out, bad) ==
    IF bad = {} /\ \E i \in 1..Len(out) : "probes" \in DOMAIN out[i]
    THEN out[CHOOSE i \in 1..Len(out) : "probes" \in DOMAIN out[i]].probes
    ELSE <<>>

\* {"Rule": rule, **dict(zip(["Pass", "Details"], value))}
CheckEntry(rule, value) == [Rule |-> rule, Pass |-> value.Pass, Details |-> value.Details]

Collected(en, registry, out, bad) ==
    [called |-> CalledUpTo(en, registry, StopsAt(Len(registry), bad)),
     probes |-> Issued(out, bad),
     raised |-> bad # {},
     exc    |-> IF bad = {} THEN Raise("", "") ELSE out[StopsAt(Len(registry), bad)],
     checks |-> IF bad # {} THEN <<>>
                ELSE [i \in 1..Len(registry) |-> CheckEntry(registry[i], out[i])]]

\* Evaluating the checks = [...] list display: the entries are evaluated in
\* order and the first evaluator that raises ends the evaluation.
\* Yields the evaluators called, the probes issued, and either the checks
\* or the exception.
EvalChecks(en, mod, registry, ns, sp, rsp, base_url, net) ==
    LET out == [i \in 1..Len(registry) |->
                   IF IsLiteral(en, registry[i]) THEN SkippedWeight
                   ELSE RunRule(mod, registry[i], ns, sp, rsp, base_url, net)]
    IN  Collected(en, registry, out, {i \in 1..Len(registry) : Raised(out[i])})

\* sum(1 for check in checks if check["Pass"])
NumPassed(checks) == Cardinality({i \in 1..Len(checks) : Truthy(checks[i].Pass)})

\* (num_passed / total_checks) * 100, as the exact quotient num / den
Score(num_passed, total_checks) == [num |-> num_passed * 100, den |-> total_checks]

\* check["Status"] = ... for check in checks
WithStatus(checks) ==
    [i \in 1..Len(checks) |->
        [Rule |-> checks[i].Rule, Pass |-> checks[i].Pass, Details |-> checks[i].Details,
         Status |-> IF Truthy(checks[i].Pass) THEN "pass-mark" ELSE "fail-mark"]]

\* [f"{check['Rule']}: {check['Details']}" for check in checks if not check["Pass"]]
Recommendations(checks) ==
    LET Failed(c) == ~Truthy(c.Pass)
        failed == SelectSeq(checks, Failed)
    IN  [i \in 1..Len(failed) |-> failed[i].Rule \o ": " \o failed[i].Details]

\* The results dict of analyze_website.analyze_website
aw_results(url, checks) ==
    [url |-> url,
     score |-> Score(NumPassed(checks), Len(checks)),
     passed |-> NumPassed(checks),
     total |-> Len(checks),
     checks |-> WithStatus(checks),
     recommendations |-> Recommendations(checks)]

\* page_summary of ai_readiness_checker.analyze_website; soup.title.string
\* raises when the page has a title, since Element has no attribute string
PageSummary(ns, sp) ==
    IF find(ns, sp.root, Name("title"), NoAttrs, NoKw).val # NoneRef
    THEN Raise("AttributeError", "'Element' object has no attribute 'string'")
    ELSE [Title |-> "No title found",
          MetaDescription |->
              IF find(ns, sp.root, Name("meta"),
                      Attrs(Kw1("name", Equals(<<"d","e","s","c","r","i","p","t","i","o","n">>))),
                      NoKw).val # NoneRef
              THEN "Present" ELSE "Missing",
          TotalLinks   |-> Len(find_all(ns, sp.root, Name("a"), NoAttrs, NoKw).val),
          TotalImages  |-> Len(find_all(ns, sp.root, Name("img"), NoAttrs, NoKw).val),
          TotalScripts |-> Len(find_all(ns, sp.root, Name("script"), NoAttrs, NoKw).val),
          TotalStyles  |-> Len(find_all(ns, sp.root, Name("style"), NoAttrs, NoKw).val)]

\* The results dict of ai_readiness_checker.analyze_website (its datetime
\* field, the wall-clock time, is left out), or what building it raises
arc_summarised(url, checks, page_summary) ==
    IF Raised(page_summary) THEN page_summary
    ELSE [url |-> url,
          score |-> Score(NumPassed(checks), Len(checks)),
          passed |-> NumPassed(checks),
          total |-> Len(checks),
          checks |-> WithStatus(checks),
          page_summary |-> page_summary,
          recommendations |-> Recommendations(checks)]

arc_results(url, checks, ns, sp) == arc_summarised(url, checks, PageSummary(ns, sp))

\* What app.py prints in CLI mode:
\* sum(c["Pass"] for c in checks) raises on a None pass flag
app_results(url, checks) ==
    IF \E i \in 1..Len(checks) : checks[i].Pass = PyNone
    THEN Raise("TypeError", "unsupported operand type(s) for +: 'int' and 'NoneType'")
    ELSE [url |-> url,
          score |-> Score(NumPassed(checks), Len(checks)),
          passed |-> NumPassed(checks),
          total |-> Len(checks),
          checks |-> WithStatus(checks),
          recommendations |-> Recommendations(checks)]

\* What the "Analyze Website" handler of app.py shows: df['Pass'].sum()
\* skips a None pass flag, ~df["Pass"] raises on it
ui_results(url, checks) ==
    IF \E i \in 1..Len(checks) : checks[i].Pass = PyNone
    THEN Raise("TypeError", "bad operand type for unary ~: 'NoneType'")
    ELSE [url |-> url,
          score |-> Score(NumPassed(checks), Len(checks)),
          passed |-> NumPassed(checks),
          total |-> Len(checks),
          checks |-> WithStatus(checks),
          recommendations |-> Recommendations(checks)]

----------------------------------------------------------------------------
(* The programs. *)

\* The two analyze_website functions, app.py run with a URL argument, the
\* "Analyze Website" button handler of app.py, and direct calls of the
\* public functions (as tests/ make them).
Functions == {AW, ARC}
Entries   == Functions \cup {"app_cli", "app_ui", "direct"}

Url == "http://site/"

NoResult == [kind |-> "none"]
NoCall   == [kind |-> "none"]

\* except Exception as e: return {"error": str(e)}
ErrorReport(e) == [error |-> e.msg]

\* What an exception e becomes in entry point en: the analyze_website
\* functions return an ErrorReport, the button handler shows st.error, and
\* CLI mode of app.py has no handler.
Failure(en, e) ==
    IF en \in Functions THEN ErrorReport(e)
    ELSE IF en = "app_ui" THEN [st_error |-> "Error analyzing site: " \o e.msg]
    ELSE [uncaught |-> e.exc, msg |-> e.msg]

EmptyHeaders == EmptyDict

\* What the network may do to the page GET.
GetOutcomes ==
    { Answered(200, EmptyHeaders, 1000),
      HttpError(404, EmptyHeaders),
      NoAnswer("URLError"),
      NoAnswer("TimeoutError") }

\* What the network may do to a HEAD probe.
HeadOutcomes ==
    { Answered(200, Kw1("Content-Length", Str_250), 0),
      Answered(200, EmptyHeaders, 0),
      Answered(200, Kw1("Content-Length", Str_x), 0),
      HttpError(404, Kw1("Content-Length", Str_10)),
      HttpError(500, EmptyHeaders),
      NoAnswer("URLError"),
      NoAnswer("TimeoutError") }

NoRun == [kind |-> "none"]

\* parser = _Parser(): a new root Element, and current = root.  before is the
\* parser state an earlier BeautifulSoup(...) call left behind; the new
\* parser shares nothing with it.
ParserInit_shared(before) ==
    IF before.nodes = <<>>
    THEN [nodes |-> << Element(DocumentName, <<>>, NoneRef) >>, current |-> ParserRoot]
    ELSE before

ParserInit(before) ==
    [nodes |-> << Element(DocumentName, <<>>, NoneRef) >>, current |-> ParserRoot]

Init ==
    /\ entry \in Entries
    /\ pc = "start"
    /\ markup = <<>>
    /\ previous = NoRun
    /\ nodes = <<>>
    /\ current = NoneRef
    /\ cdata = ""
    /\ fed = 0
    /\ soup = NoSoup
    /\ fetch = NoCall
    /\ resp = NoResp
    /\ called = <<>>
    /\ probes = <<>>
    /\ result = NoResult
    /\ last = NoCall

\* What follows requests.get(...) returning or raising r
Fetched(r) ==
    IF Raised(r)
    THEN /\ result' = Failure(entry, r)
         /\ pc' = "done"
         /\ UNCHANGED <<nodes, current, resp>>
    ELSE /\ resp' = r
         /\ nodes' = ParserInit([nodes |-> nodes, current |-> current]).nodes
         /\ current' = ParserInit([nodes |-> nodes, current |-> current]).current
         /\ pc' = "feed"
         /\ UNCHANGED result

\* resp = requests.get(url, headers=headers), then BeautifulSoup(resp.text, ...)
\* creates its _Parser; a failed GET ends the run.  A second run of the
\* analysis gets the answer the first one got.
Get(net) ==
    /\ pc = "start"
    /\ entry # "direct"
    /\ previous # NoRun => net = previous.fetch
    /\ fetch' = net
    /\ Fetched(get(Url, net))
    /\ UNCHANGED <<entry, markup, previous, cdata, fed, soup, called, probes, last>>

\* A direct BeautifulSoup(markup, 'html.parser') call: parser = _Parser()
DirectBeautifulSoup ==
    /\ pc = "start"
    /\ entry = "direct"
    /\ nodes' = ParserInit([nodes |-> nodes, current |-> current]).nodes
    /\ current' = ParserInit([nodes |-> nodes, current |-> current]).current
    /\ pc' = "feed"
    /\ UNCHANGED <<entry, markup, previous, fetch, cdata, fed, soup, resp, called, probes, result, last>>

\* An exception leaves parser.feed: BeautifulSoup(...) raises it.
FeedRaises(e) ==
    /\ pc' = "done"
    /\ IF entry = "direct"
       THEN /\ last' = [fn |-> "BeautifulSoup", module |-> "bs4", ret |-> e]
            /\ UNCHANGED result
       ELSE /\ result' = Failure(entry, e)
            /\ UNCHANGED last

\* The page is written over one vocabulary.
OnePage(toks) == \E v \in Vocabularies : \A i \in 1..Len(toks) : toks[i] \in v

\* html.parser in raw-text mode (inside script or style) reports only text
\* and the end tag of that element.  The second run of an analysis is fed
\* the page of the first.
TokenAllowed(tok) ==
    /\ pc = "feed"
    /\ fed < MaxTokens
    /\ OnePage(Append(markup, tok))
    /\ previous # NoRun => (fed < Len(previous.markup) /\ tok = previous.markup[fed + 1])
    /\ cdata # "" => \/ tok.type = "data"
                     \/ tok.type = "end" /\ tok.tag = cdata

\* _Parser.handle_starttag
HandleStartTag(tok) ==
    /\ TokenAllowed(tok)
    /\ fed' = fed + 1
    /\ markup' = Append(markup, tok)
    /\ IF current = NoneRef
       THEN /\ FeedRaises(Raise("AttributeError",
                                "'NoneType' object has no attribute 'append'"))
            /\ UNCHANGED <<nodes, current, cdata>>
       ELSE /\ LET el == Len(nodes) + 1 IN
               /\ nodes' = ElementAppend(Append(nodes, Element(tok.tag, tok.attrs, current)),
                                         current, el)
               /\ current' = el
            /\ cdata' = IF tok.tag \in CDataElements THEN tok.tag ELSE ""
            /\ UNCHANGED <<pc, result, last>>
    /\ UNCHANGED <<entry, previous, fetch, soup, resp, called, probes>>

\* _Parser.handle_endtag
HandleEndTag(tok) ==
    /\ TokenAllowed(tok)
    /\ fed' = fed + 1
    /\ markup' = Append(markup, tok)
    /\ current' = EndTagCurrent(nodes, current, tok.tag)
    /\ cdata' = ""
    /\ UNCHANGED <<entry, previous, fetch, pc, nodes, soup, resp, called, probes, result, last>>

\* _Parser.handle_data: if self.current: self.current.text += data
HandleData(tok) ==
    /\ TokenAllowed(tok)
    /\ fed' = fed + 1
    /\ markup' = Append(markup, tok)
    /\ nodes' = IF current # NoneRef
                THEN [nodes EXCEPT ![current].text = @ \o tok.data]
                ELSE nodes
    /\ UNCHANGED <<entry, previous, fetch, pc, current, cdata, soup, resp, called, probes, result, last>>

\* BeautifulSoup.__init__ after parser.feed(markup) returned:
\* super().__init__('[document]'); self.children = parser.root.children;
\* every child gets the new object as its parent.
BeautifulSoupInit ==
    /\ pc = "feed"
    /\ previous # NoRun => fed = Len(previous.markup)
    /\ LET self == Len(nodes) + 1
           kids == nodes[ParserRoot].children
           made == Append(nodes, [Element(DocumentName, <<>>, NoneRef)
                                     EXCEPT !.children = kids])
       IN  /\ nodes' = [i \in 1..Len(made) |->
                           IF \E k \in 1..Len(kids) : kids[k] = i
                           THEN [made[i] EXCEPT !.parent = self]
                           ELSE made[i]]
           /\ soup' = Soup(self)
    /\ pc' = "soup"
    /\ UNCHANGED <<entry, markup, previous, fetch, current, cdata, fed, resp, called, probes, result, last>>

\* Upper bound on the resources a page of the model references.
NumRefs(ns) ==
    Cardinality({i \in 1..Len(ns) : DOMAIN ns[i].attrs \cap {"src", "href"} # {}})

\* What the network may do to the HEAD probes of a run that reaches rule:
\* only check_total_weight issues any.
Nets(ns, rules) ==
    IF \E i \in 1..Len(rules) : rules[i] = "Page Weight"
    THEN [1..NumRefs(ns) -> HeadOutcomes]
    ELSE {<<>>}

ModuleOf(en)   == IF en \in Functions THEN en ELSE APP
RegistryOf(en) == IF en \in Functions THEN Registry7 ELSE Registry15

\* What the entry point builds from the evaluated checks, or what ended it
ReportOf(en, ev, ns, sp) ==
    IF ev.raised THEN ev.exc
    ELSE IF en = AW THEN aw_results(Url, ev.checks)
    ELSE IF en = ARC THEN arc_results(Url, ev.checks, ns, sp)
    ELSE IF en = "app_cli" THEN app_results(Url, ev.checks)
    ELSE ui_results(Url, ev.checks)

Outcome(en, report) == IF Raised(report) THEN Failure(en, report) ELSE report

Finish(ev) ==
    /\ called' = ev.called
    /\ probes' = ev.probes
    /\ result' = Outcome(entry, ReportOf(entry, ev, nodes, soup))

\* The rest of an entry point once the soup is built: the checks list is
\* evaluated, the score computed and the report returned, printed or shown;
\* any exception ends it the way the entry point handles exceptions.
RunChecks(net) ==
    /\ pc = "soup"
    /\ entry # "direct"
    /\ Finish(EvalChecks(entry, ModuleOf(entry), RegistryOf(entry),
                         nodes, soup, resp, Url, net))
    /\ pc' = "done"
    /\ UNCHANGED <<entry, markup, previous, fetch, nodes, current, cdata, fed, soup, resp, last>>

\* analyze_website.analyze_website(url) is called a second time, on the same page and with
\* the same answer to its GET.  What the first call built is still in
\* memory; the second call starts from its own local variables.
Again ==
    /\ pc = "done"
    /\ entry = AW
    /\ previous = NoRun
    /\ previous' = [markup |-> markup, fetch |-> fetch, called |-> called,
                    result |-> result]
    /\ fetch' = NoCall
    /\ pc' = "start"
    /\ markup' = <<>>
    /\ fed' = 0
    /\ cdata' = ""
    /\ soup' = NoSoup
    /\ resp' = NoResp
    /\ called' = <<>>
    /\ result' = NoResult
    /\ UNCHANGED <<entry, nodes, current, probes, last>>

----------------------------------------------------------------------------
(* Direct calls of the public functions. *)

\* DummySoup fixtures in the manner of tests/test_schema_markup.py
DummyScripts ==
    {<<>>} \cup
    { << DummyTag(t, EmptyDict) >> :
         t \in {Str_schema_lower, Str_schema_mixed, Str_schema_upper,
                Str_schema_tail, Str_example} }

DummyMicro ==
    { <<>>,
      << DummyTag(NoneStr, Kw1("itemtype", Str_schema_lower)) >> }

\* soup = DummySoup(scripts, micro)
DirectDummySoup(scripts, micro) ==
    /\ pc = "start"
    /\ entry = "direct"
    /\ soup' = DummySoup(scripts, micro)
    /\ pc' = "soup"
    /\ UNCHANGED <<entry, markup, previous, fetch, nodes, current, cdata, fed, resp, called, probes, result, last>>

\* The evaluators called directly, by module and rule.
DirectCalls ==
    ({AW, ARC, APP, EV} \X {"Schema.org Markup", "Alt Text for Images"})
    \cup ({APP, EV} \X {"Page Weight", "Resource Count"})
    \cup ({ARC} \X {"Language Attribute", "Transcripts/Captions"})

DirectResponses == { Response(Url, 1000, EmptyHeaders, 200) }

\* The direct call of rule in module mod returned or raised ret
Returned(mod, rule, rsp, net, ret) ==
    /\ last' = [fn |-> rule, module |-> mod, rsp |-> rsp, net |-> net, ret |-> ret]
    /\ probes' = IF "probes" \in DOMAIN ret THEN ret.probes ELSE <<>>

\* check_...(soup) or check_total_weight(resp, soup, base_url, headers)
DirectCheck(mod, rule, rsp, net) ==
    /\ pc = "soup"
    /\ entry = "direct"
    /\ Returned(mod, rule, rsp, net, RunRule(mod, rule, nodes, soup, rsp, Url, net))
    /\ called' = Append(called, rule)
    /\ pc' = "done"
    /\ UNCHANGED <<entry, markup, previous, fetch, nodes, current, cdata, fed, soup, resp, result>>

\* What the network may answer to the GET whose Response is handed to
\* check_caching_headers: header names arrive in the server's casing.
CachingOutcomes ==
    { Answered(200, hs, 1000) :
        hs \in { EmptyHeaders,
                 Kw1("Cache-Control", Str_x),
                 Kw1("cache-control", Str_x),
                 Kw1("ETag", Str_x),
                 Kw1("etag", Str_x),
                 Kw2("Cache-Control", Str_x, "ETag", Str_x) } }

\* check_caching_headers(requests.get(url)), in app or ai_readiness.evaluations
DirectCachingHeaders(mod, net) ==
    /\ pc = "start"
    /\ entry = "direct"
    /\ last' = [fn |-> "Caching Headers", module |-> mod, net |-> net,
                rsp |-> get(Url, net),
                ret |-> RunRule(mod, "Caching Headers", nodes, soup, get(Url, net), Url, <<>>)]
    /\ called' = Append(called, "Caching Headers")
    /\ pc' = "done"
    /\ UNCHANGED <<entry, markup, previous, fetch, nodes, current, cdata, fed, soup, resp, probes, result>>

\* The filters of the direct queries.
QueryNames == { NoName, Name("img"), Names(<<"p", "img">>) }

QueryAttrs ==
    { NoAttrs,
      Attrs(Kw1("alt", IsTrue)),
      Attrs(Kw2("alt", Equals(Str_x), "src", IsTrue)) }

\* The elements a query is called on: the soup and every element under it.
Selves(ns, sp) == {sp.root} \cup (2..(Len(ns) - 1))

\* The direct queries are made on the pages of images.
OnQueryPage ==
    /\ pc = "soup"
    /\ entry = "direct"
    /\ soup.kind = "BeautifulSoup"
    /\ \A i \in 1..Len(markup) : markup[i] \in QueryStartTags \cup QueryEndTags

\* el.find_all(name, attrs)
DirectFindAll(self, name, attrs) ==
    /\ OnQueryPage
    /\ self \in Selves(nodes, soup)
    /\ last' = [fn |-> "find_all", module |-> "bs4", self |-> self, name |-> name,
                attrs |-> attrs, ret |-> find_all(nodes, self, name, attrs, NoKw)]
    /\ pc' = "done"
    /\ UNCHANGED <<entry, markup, previous, fetch, nodes, current, cdata, fed, soup, resp, called, probes, result>>

\* el.find(name, attrs)
DirectFind(self, name, attrs) ==
    /\ OnQueryPage
    /\ self \in Selves(nodes, soup)
    /\ last' = [fn |-> "find", module |-> "bs4", self |-> self, name |-> name,
                attrs |-> attrs, ret |-> find(nodes, self, name, attrs, NoKw)]
    /\ pc' = "done"
    /\ UNCHANGED <<entry, markup, previous, fetch, nodes, current, cdata, fed, soup, resp, called, probes, result>>

\* requests.get(url)
DirectGet(net) ==
    /\ pc = "start"
    /\ entry = "direct"
    /\ last' = [fn |-> "get", module |-> "requests", net |-> net, ret |-> get(Url, net)]
    /\ pc' = "done"
    /\ UNCHANGED <<entry, markup, previous, fetch, nodes, current, cdata, fed, soup, resp, called, probes, result>>

\* requests.head(url)
DirectHead(net) ==
    /\ pc = "start"
    /\ entry = "direct"
    /\ last' = [fn |-> "head", module |-> "requests", net |-> net, ret |-> head(Url, net)]
    /\ pc' = "done"
    /\ UNCHANGED <<entry, markup, previous, fetch, nodes, current, cdata, fed, soup, resp, called, probes, result>>

----------------------------------------------------------------------------

Next ==
    \/ \E net \in GetOutcomes : Get(net)
    \/ DirectBeautifulSoup
    \/ \E tok \in StartTags : HandleStartTag(tok)
    \/ \E tok \in EndTags : HandleEndTag(tok)
    \/ \E tok \in Texts : HandleData(tok)
    \/ BeautifulSoupInit
    \/ \E net \in Nets(nodes, IF entry = "app_ui" THEN Registry15 ELSE Registry7) :
          RunChecks(net)
    \/ Again
    \/ \E scripts \in DummyScripts, micro \in DummyMicro : DirectDummySoup(scripts, micro)
    \/ \E call \in DirectCalls :
          \E rsp \in DirectResponses, net \in Nets(nodes, <<call[2]>>) :
              DirectCheck(call[1], call[2], rsp, net)
    \/ \E mod \in {APP, EV}, net \in CachingOutcomes : DirectCachingHeaders(mod, net)
    \/ \E self \in 1..(MaxTokens + 2), name \in QueryNames, attrs \in QueryAttrs :
          DirectFindAll(self, name, attrs)
    \/ \E self \in 1..(MaxTokens + 2), name \in QueryNames, attrs \in QueryAttrs :
          DirectFind(self, name, attrs)
    \/ \E net \in GetOutcomes \cup HeadOutcomes : DirectGet(net)
    \/ \E net \in GetOutcomes \cup HeadOutcomes : DirectHead(net)

Spec == Init /\ [][Next]_vars

----------------------------------------------------------------------------
(* Properties. *)

\* The direct call of fn has returned or raised
DirectCalled(fn) == entry = "direct" /\ pc = "done" /\ last.fn = fn

\* An entry point fetched and parsed the page and went through its checks
Analysed == entry # "direct" /\ pc = "done" /\ soup # NoSoup

\* The page GET got an HTTP error answer or no answer
GetFailed == fetch.kind \in {"http_error", "no_answer"}

\* No element from cur up to the root is named tag
Unmatched(ns, cur, tag) == cur # NoneRef /\ WalkUp(ns, cur, tag) = NoneRef

\* C1: an end tag that matches no element from current up to the root
\* leaves the tree unchanged and sets current to the root, so that a start
\* tag that follows is attached under the root.
C1_UnmatchedEndTagResetsToRoot ==
    [][\A tok \in EndTags :
          (HandleEndTag(tok) /\ Unmatched(nodes, current, tok.tag))
              => (current' = ParserRoot /\ nodes' = nodes)]_vars

\* The soup holds an application/ld+json script whose text contains
\* "schema.org" in some letter casing
HasSchemaScript(ns, sp) ==
    IF sp.kind = "DummySoup"
    THEN \E i \in 1..Len(sp.scripts) :
            /\ sp.scripts[i].text # NoneStr
            /\ Contains(Lower(sp.scripts[i].text), Str_schema_lower)
    ELSE LET m == Matching(ns, sp.root, Name("script"),
                           Attrs(Kw1("type", Equals(Str_ldjson))))
         IN  \E i \in 1..Len(m) : Contains(Lower(ns[m[i]].text), Str_schema_lower)

\* C2: check_schema_markup of every module passes when an ld+json script
\* contains "schema.org" in any letter casing, and in app the details
\* name JSON-LD.
C2_SchemaAnyCasing ==
    (DirectCalled("Schema.org Markup") /\ HasSchemaScript(nodes, soup))
        => /\ ~Raised(last.ret)
           /\ last.ret.Pass = PyTrue
           /\ last.module = APP
                  => last.ret.Details \in {"JSON-LD found",
                                           "JSON-LD found; Microdata markup found"}

\* C3: check_alt_text of every module passes with "No images found." on a
\* document without img elements; otherwise it passes iff no img lacks a
\* non-blank alt, and on failure the details give the number lacking one.
C3_AltTextRule ==
    DirectCalled("Alt Text for Images")
        => LET images  == SoupFindAll(nodes, soup, Name("img"), NoAttrs, NoKw).val
               missing == Len(SelectSeq(images, MissingAlt))
           IN  /\ ~Raised(last.ret)
               /\ IF images = <<>>
                  THEN last.ret = Checked(PyTrue, "No images found.")
                  ELSE /\ last.ret.Pass = PyBool(missing = 0)
                       /\ missing > 0 =>
                             last.ret.Details \in
                                 { ToString(missing) \o " images missing alt text.",
                                   ToString(missing) \o " of " \o ToString(Len(images))
                                       \o " images missing alt text." }

\* C4: when the page GET fails, analyze_website returns {error: message}
\* and nothing else runs: no parse, no rule evaluator, no HEAD probe; and
\* a result with an error field has no other field.
C4_FailedGetShortCircuits ==
    /\ (entry \in Functions /\ GetFailed)
           => /\ pc = "done"
              /\ DOMAIN result = {"error"}
              /\ soup = NoSoup /\ nodes = <<>>
              /\ called = <<>>
              /\ probes = <<>>
    /\ (entry \in Functions /\ "error" \in DOMAIN result)
           => DOMAIN result = {"error"}

C4_GetFailedInAnalyzeWebsite ==
    /\ entry \in Functions
    /\ GetFailed
    /\ pc = "done"
    /\ "error" \in DOMAIN result

\* C5: an analysis reports one check per executed rule, in registry order,
\* and total is the number of rules executed: 7 for analyze_website and
\* ai_readiness_checker, 15 for app.
C5_OneCheckPerExecutedRule ==
    Analysed
        => /\ "checks" \in DOMAIN result
           /\ [i \in 1..Len(result.checks) |-> result.checks[i].Rule] = called
           /\ result.total = Len(called)
           /\ result.total = IF entry \in Functions THEN 7 ELSE 15

\* C6: an analysis reports passed = the number of checks whose pass flag
\* is true and score = 100 * passed / total, with 0 <= passed <= total.
C6_PassedAndScore ==
    Analysed
        => /\ "passed" \in DOMAIN result
           /\ result.passed =
                  Cardinality({i \in 1..Len(result.checks) : result.checks[i].Pass = PyTrue})
           /\ result.passed \in 0..result.total
           /\ result.score.num = 100 * result.passed
           /\ result.score.den = result.total

\* The checks that failed, in order
FailedChecks(checks) ==
    LET Failed(c) == c.Pass # PyTrue IN SelectSeq(checks, Failed)

\* C7: an analysis reports one recommendation "{rule}: {details}" per
\* failed check, in the order of checks, and none for a passed check.
C7_RecommendationPerFailedCheck ==
    Analysed
        => /\ "recommendations" \in DOMAIN result
           /\ result.recommendations =
                  [i \in 1..Len(FailedChecks(result.checks)) |->
                      FailedChecks(result.checks)[i].Rule \o ": "
                          \o FailedChecks(result.checks)[i].Details]
           /\ Len(result.recommendations) = result.total - result.passed

\* C8: head returns a Response with the status and headers of an HTTP
\* error answer and raises only when there is no answer; get raises on both.
C8_HeadRecoversHttpError ==
    /\ DirectCalled("head")
           => /\ last.net.kind = "http_error"
                  => /\ ~Raised(last.ret)
                     /\ last.ret.status_code = last.net.status
                     /\ last.ret.headers = last.net.headers
              /\ last.net.kind = "response" => ~Raised(last.ret)
              /\ last.net.kind = "no_answer" => Raised(last.ret)
    /\ DirectCalled("get")
           => (Raised(last.ret) <=> last.net.kind # "response")

C8_HeadGotHttpError ==
    /\ DirectCalled("head")
    /\ last.net.kind = "http_error"
    /\ ~Raised(last.ret)
    /\ last.ret.status_code = 404

\* The bytes a probe answered by net is to add: the Content-Length of a
\* normal answer, 0 for a failed probe or an HTTP error answer
ExpectedSize(net) ==
    IF net.kind = "response" /\ "Content-Length" \in DOMAIN net.headers
    THEN SizeOrSkip(int(net.headers["Content-Length"]))
    ELSE 0

RECURSIVE ExpectedSum(_)
ExpectedSum(net) ==
    IF net = <<>> THEN 0 ELSE ExpectedSize(Head(net)) + ExpectedSum(Tail(net))

\* C9: check_total_weight returns a result whatever happens to its HEAD
\* probes: a failed probe adds 0 bytes, the other resources are still
\* probed and summed, and the handler still reports 15 checks.
C9_FailedProbeAddsNothing ==
    /\ DirectCalled("Page Weight")
           => /\ ~Raised(last.ret)
              /\ Len(last.ret.probes) = Len(last.net)
              /\ last.ret.Details =
                     WeightResult(last.rsp.content + ExpectedSum(last.net), <<>>).Details
    /\ (entry = "app_ui" /\ Analysed)
           => ("total" \in DOMAIN result /\ result.total = 15)

\* C10: a HEAD probe answered with an HTTP error adds 0 bytes to the total
\* page weight whatever headers the answer carries, and check_total_weight
\* goes on to return its result.
C10_HttpErrorProbeAddsNothing ==
    (DirectCalled("Page Weight") /\ \E i \in DOMAIN last.net : last.net[i].kind = "http_error")
        => /\ ~Raised(last.ret)
           /\ \A i \in DOMAIN last.net :
                 last.net[i].kind = "http_error"
                     => ProbeSize(urljoin(Url, Str_a_png), last.net[i]) = 0

----------------------------------------------------------------------------
(* The query engine and the tree builder. *)

\* el lies under anc in the tree
RECURSIVE Descends(_, _, _)
Descends(ns, el, anc) ==
    /\ ns[el].parent # NoneRef
    /\ \/ ns[el].parent = anc
       \/ Descends(ns, ns[el].parent, anc)

\* The name filter as the query contract states it
NameHolds(elname, name) ==
    CASE name.kind = "none" -> TRUE
      [] name.kind = "str"  -> elname = name.v
      [] name.kind = "list" -> elname \in {name.v[i] : i \in 1..Len(name.v)}

\* One entry of the attribute filter as the query contract states it: an
\* expected string needs the key with exactly that value, the "exists"
\* sentinel needs the key with a value that is not absent
EntryHolds(elattrs, k, e) ==
    /\ k \in DOMAIN elattrs
    /\ IF e.true THEN elattrs[k] # NoneStr ELSE elattrs[k] = e.v

EveryEntryHolds(elattrs, attrs) ==
    attrs.kind = "dict" => \A k \in DOMAIN attrs.d : EntryHolds(elattrs, k, attrs.d[k])

\* The elements under self that satisfy both filters, in document order:
\* the tree builder creates the elements in document order, so the order of
\* creation is the pre-order of the tree.
Sought(ns, self, name, attrs) ==
    LET Wanted(el) == /\ el # self
                      /\ Descends(ns, el, self)
                      /\ NameHolds(ns[el].name, name)
                      /\ EveryEntryHolds(ns[el].attrs, attrs)
    IN  SelectSeq([i \in 1..Len(ns) |-> i], Wanted)

\* C11: find_all returns exactly the elements under the element it is
\* called on that satisfy the name filter and every entry of the attribute
\* filter, each once and in document pre-order.
C11_FindAllExactInPreOrder ==
    DirectCalled("find_all")
        => /\ ~Raised(last.ret)
           /\ last.ret.val = Sought(nodes, last.self, last.name, last.attrs)

\* C12: find returns the first element of find_all called with the same
\* filters, None exactly when find_all returns the empty list, and never
\* the element it is called on.
C12_FindIsFirstOfFindAll ==
    DirectCalled("find")
        => LET all == find_all(nodes, last.self, last.name, last.attrs, NoKw).val IN
           /\ ~Raised(last.ret)
           /\ last.ret.val # last.self
           /\ IF all = <<>> THEN last.ret.val = NoneRef
              ELSE last.ret.val = all[1]

\* find was called on an element with elements under it and returned one
C12_FindBelowAnElement ==
    /\ DirectCalled("find")
    /\ last.self # soup.root
    /\ last.name = NoName
    /\ ~Raised(last.ret)
    /\ last.ret.val # NoneRef

\* C13: an element is matched by an attribute filter iff every entry holds,
\* where an "exists" entry holds iff the key is present with a value that is
\* not absent: an attribute given without a value does not satisfy it.
C13_ExistsNeedsAValue ==
    (DirectCalled("find_all") /\ last.self = soup.root /\ last.name = NoName)
        => \A el \in 2..(Len(nodes) - 1) :
              (\E i \in 1..Len(last.ret.val) : last.ret.val[i] = el)
                  <=> EveryEntryHolds(nodes[el].attrs, last.attrs)

\* The open elements at cur: cur and the elements above it
OpenPath(ns, cur) == {el \in 1..Len(ns) : el = cur \/ Descends(ns, cur, el)}

\* The innermost open element named tag, or NoneRef
Innermost(ns, cur, tag) ==
    LET named == {el \in OpenPath(ns, cur) : ns[el].name = tag} IN
    IF named = {} THEN NoneRef
    ELSE CHOOSE el \in named : \A o \in named \ {el} : Descends(ns, el, o)

\* C20: an end tag that finds an open element of its name closes the
\* innermost one: current becomes that element's parent and no element's
\* parent or children change; a start tag that follows is attached as the
\* last child of current, a sibling of the closed element.
C20_EndTagClosesInnermost ==
    [][/\ \A tok \in EndTags :
            (HandleEndTag(tok) /\ current # NoneRef
                /\ Innermost(nodes, current, tok.tag) # NoneRef)
            => /\ current' = nodes[Innermost(nodes, current, tok.tag)].parent
               /\ nodes' = nodes
       /\ \A tok \in StartTags :
            (HandleStartTag(tok) /\ current # NoneRef)
            => /\ Len(nodes') = Len(nodes) + 1
               /\ nodes'[Len(nodes')].parent = current
               /\ nodes'[current].children = Append(nodes[current].children, Len(nodes'))
               /\ \A el \in 1..Len(nodes) : nodes'[el].parent = nodes[el].parent
      ]_vars

\* Of two nested elements of one name an end tag closed the inner one
C20_InnerOfTwoClosed ==
    /\ pc = "feed"
    /\ Len(nodes) >= 3
    /\ nodes[3].name = nodes[2].name
    /\ nodes[3].parent = 2
    /\ current = 2
    /\ markup # <<>>
    /\ markup[Len(markup)].type = "end"

----------------------------------------------------------------------------
(* The rule evaluators on the documents of the tree builder. *)

\* A rule evaluator was called directly on a BeautifulSoup
Evaluated(rule) == DirectCalled(rule) /\ soup.kind = "BeautifulSoup"

\* The elements of the document, in document order
Elements(ns) == 2..(Len(ns) - 1)

\* C14: on every document the tree builder produces each rule evaluator
\* returns a (passed, details) pair and never raises.
C14_EvaluatorsNeverRaise ==
    \A i \in 1..Len(Registry15) :
        Evaluated(Registry15[i])
            => /\ ~Raised(last.ret)
               /\ {"Pass", "Details"} \subseteq DOMAIN last.ret

\* The first html element of the document, or NoneRef
HtmlElement(ns) ==
    LET htmls == {el \in Elements(ns) : ns[el].name = "html"} IN
    IF htmls = {} THEN NoneRef
    ELSE CHOOSE el \in htmls : \A o \in htmls : el <= o

\* C15: check_language_attribute passes iff the document has an html
\* element with a lang attribute, and its pass result is exactly True or
\* False, also for a document without an html element.
C15_LanguagePassIsBoolean ==
    Evaluated("Language Attribute")
        => /\ ~Raised(last.ret)
           /\ last.ret.Pass =
                 PyBool(/\ HtmlElement(nodes) # NoneRef
                        /\ "lang" \in DOMAIN nodes[HtmlElement(nodes)].attrs)

\* A header name in lower case, for the names the model's servers send
HeaderLower(k) ==
    CASE k = "Cache-Control" -> "cache-control"
      [] k = "ETag"          -> "etag"
      [] OTHER               -> k

\* The response carries the header, in whatever letter casing
HasHeader(rsp, name) == \E k \in DOMAIN rsp.headers : HeaderLower(k) = name

\* C16: the Caching headers rule passes iff the response has a
\* Cache-Control or an ETag header, whatever the letter casing of the name.
C16_CachingHeadersAnyCasing ==
    DirectCalled("Caching Headers")
        => /\ ~Raised(last.ret)
           /\ last.ret.Pass =
                 PyBool(HasHeader(last.rsp, "cache-control") \/ HasHeader(last.rsp, "etag"))

\* The elements the Resource count rule counts
References(ns) ==
    {el \in Elements(ns) :
        \/ ns[el].name \in {"script", "img", "video", "audio"}
              /\ "src" \in DOMAIN ns[el].attrs
        \/ ns[el].name = "link"
              /\ "href" \in DOMAIN ns[el].attrs
              /\ "rel" \in DOMAIN ns[el].attrs
              /\ ns[el].attrs["rel"] = Str_stylesheet}

\* C17: the Resource count rule counts every src/href reference of the
\* page, passes iff the count is at most 50 and reports the count in its
\* details whether it passes or fails.
C17_ResourceCountReported ==
    Evaluated("Resource Count")
        => /\ ~Raised(last.ret)
           /\ last.ret.Pass = PyBool(Cardinality(References(nodes)) <= 50)
           /\ last.ret.Details =
                 ToString(Cardinality(References(nodes))) \o " external resources referenced."

\* The element has an aria-label or a title that says something
HasLabel(ns, el) ==
    \E k \in {"aria-label", "title"} :
        /\ k \in DOMAIN ns[el].attrs
        /\ ns[el].attrs[k] \notin {NoneStr, <<>>}

\* A track with kind=captions lies under the element
HasNestedCaptions(ns, el) ==
    \E t \in Elements(ns) :
        /\ ns[t].name = "track"
        /\ Descends(ns, t, el)
        /\ "kind" \in DOMAIN ns[t].attrs
        /\ ns[t].attrs["kind"] = Str_captions

----------------------------------------------------------------------------
(* The tree the builder makes, the page weight and the requests of a run. *)

\* C21: every start tag creates exactly one new Element, appends it as the
\* last child of current and makes it current, whatever its name; every
\* other element keeps its parent and its children.
C21_StartTagOpensAnElement ==
    [][\A tok \in StartTags :
          HandleStartTag(tok)
          => /\ Len(nodes') = Len(nodes) + 1
             /\ current' = Len(nodes')
             /\ nodes'[current'].name = tok.tag
             /\ nodes'[current'].parent = current
             /\ nodes'[current].children = Append(nodes[current].children, current')
             /\ \A el \in 1..Len(nodes) :
                   /\ nodes'[el].parent = nodes[el].parent
                   /\ el # current => nodes'[el].children = nodes[el].children
      ]_vars

\* The root of the document: the BeautifulSoup once it is constructed, the
\* parser's root before
DocumentRoot == IF soup.kind = "BeautifulSoup" THEN soup.root ELSE ParserRoot

\* The elements of the document other than its root
NonRoot == IF soup.kind = "BeautifulSoup" THEN 2..(Len(nodes) - 1) ELSE 2..Len(nodes)

\* Following at most n parent links from el reaches root
RECURSIVE ReachesRoot(_, _, _, _)
ReachesRoot(ns, el, root, n) ==
    \/ el = root
    \/ /\ n > 0
       /\ el # NoneRef
       /\ ReachesRoot(ns, ns[el].parent, root, n - 1)

\* How often el is listed in the children of p
TimesChildOf(ns, el, p) ==
    Cardinality({i \in 1..Len(ns[p].children) : ns[p].children[i] = el})

\* Every element other than the root has a parent, is listed exactly once
\* in that parent's children and reaches the root by parent links
IsTree ==
    \A el \in NonRoot :
        /\ nodes[el].parent # NoneRef
        /\ TimesChildOf(nodes, el, nodes[el].parent) = 1
        /\ ReachesRoot(nodes, el, DocumentRoot, Len(nodes))

\* A parser or a document exists
Built == pc \in {"feed", "soup", "done"} /\ nodes # <<>>

\* C22: after any token stream the document is an acyclic connected tree,
\* also after the BeautifulSoup constructor re-parented the top-level
\* elements, and the parser's current reaches the root by parent links.
C22_DocumentIsATree ==
    /\ Built => IsTree
    /\ pc = "feed" => ReachesRoot(nodes, current, DocumentRoot, Len(nodes))

\* C23: the total page weight is the length of the page body plus the
\* Content-Length of every resource's HEAD probe, 0 for a probe that fails
\* or reports none, and the rule passes iff the total is at most 2 MiB.
C23_TotalIsBodyPlusProbes ==
    Evaluated("Page Weight")
        => /\ ~Raised(last.ret)
           /\ last.ret.Pass =
                 PyBool(last.rsp.content + ExpectedSum(last.net) <= 2097152)

\* The references of the page in the order check_total_weight lists them,
\* for the pages of the model, whose references are those of images
ReferenceUrls(ns) ==
    LET IsRef(el) == el \in References(ns)
        refs == SelectSeq([i \in 1..Len(ns) |-> i], IsRef)
    IN  [i \in 1..Len(refs) |-> urljoin(Url, ns[refs[i]].attrs["src"])]

\* C24: an analysis of the handler issues one page GET and then one HEAD
\* probe per referenced resource, in resource-list order and none twice.
C24_OneProbePerResource ==
    (entry = "app_ui" /\ Analysed)
        => /\ fetch # NoCall
           /\ probes = ReferenceUrls(nodes)

\* C25: a page GET answered with an HTTP error status makes get raise;
\* analyze_website evaluates no rule and returns {error: message}, not a
\* report that carries the status.
C25_HttpErrorIsAFailedFetch ==
    /\ (entry \in Functions /\ fetch.kind = "http_error")
           => /\ pc = "done"
              /\ result = ErrorReport(get(Url, fetch))
              /\ resp = NoResp
              /\ called = <<>>
    /\ (DirectCalled("get") /\ last.net.kind = "http_error")
           => /\ Raised(last.ret)
              /\ last.ret.exc = "HTTPError"

\* analyze_website returned after its GET was answered 404
C25_PageAnswered404 ==
    /\ entry \in Functions
    /\ pc = "done"
    /\ fetch.kind = "http_error"
    /\ fetch.status = 404
    /\ DOMAIN result = {"error"}

====
